---- MODULE Spec2Model ----
(***************************************************************************)
(* Package bio (cmd/internal/bio/buf.go): seekable buffered I/O.           *)
(*                                                                         *)
(* A Reader is an *os.File plus a bufio.Reader on it, a Writer an *os.File *)
(* plus a bufio.Writer on it.  The model keeps the file's content, each    *)
(* handle's cursor and each buffer's content, and has one action per       *)
(* exported operation of the package.  log.Fatalf ends the process: it is  *)
(* the state fatal = TRUE, in which no operation is enabled.               *)
(***************************************************************************)
EXTENDS Integers, Sequences, FiniteSets, TLC

\* ------------------------------------------------------------------ bounds
\* Size of a bufio buffer (bufio.defaultBufSize, scaled down).
BufSize == 2
\* Longest file the model lets a handle address.
MaxFile == 3
\* Largest byte count of one Read/Peek/Bread request or one Write.
MaxIO == 3
\* A handle read fails at the FailAt-th read of an operation, 0 = never.
MaxFailAt == 1
\* The number of Seeks a Writer is taken through.
MaxSeeks == 1
\* The same, when a Reader reads the file back.
MaxSeeksBack == 2

\* ------------------------------------------------------------- constants
EOF == -1

\* Byte values the model reads and writes: ';' and 0xFF (a hole in a file
\* reads as 0).
Bytes == {59, 255}
\* Delimiters handed to Brdline: ';', 0xFF, and two ints that byte() truncates.
Delims == {59, 255, -1, 315}

SeekOffsets == (0 - MaxFile) .. (MaxFile + 1)
\* The arguments of a Seek: every offset with each valid whence (0 from
\* the start, 1 from the current position, 2 from the end), and an invalid
\* whence.
SeekArgs == (SeekOffsets \X {0, 1, 2}) \cup {<<0, 3>>}
MaxPos == MaxFile + 1

Min(a, b) == IF a < b THEN a ELSE b

Take(s, n) == SubSeq(s, 1, Min(n, Len(s)))
Drop(s, n) == SubSeq(s, Min(n, Len(s)) + 1, Len(s))

SeqsUpTo(S, n) == UNION {[1 .. k -> S] : k \in 0 .. n}

VARIABLES
    file,      \* the named file's content, a sequence of bytes
    rcur,      \* Reader.f: the read handle's cursor
    rbuf,      \* Reader.r: the bytes buffered and not yet consumed
    rerr,      \* Reader.r: bufio's pending read error
    rclosed,   \* Reader.f was closed
    wcur,      \* Writer.f: the write handle's cursor
    wbuf,      \* Writer.w: the bytes accepted and not yet written to the handle
    werr,      \* Writer.w: bufio's sticky write error
    wclosed,   \* Writer.f was closed
    fatal,     \* log.Fatalf was called
    ret,       \* the last operation and what it returned
    \* History of the Writer's calls, read by the properties only:
    since,     \* the bytes the write calls accepted since the last Seek (or Create)
    seekTo,    \* the offset the last Seek returned (0 after Create)
    snap,      \* what the file was due to hold when the last Seek was called
    nseeks,    \* the number of Seeks that returned
    lastB,     \* the bytes accepted between the two last Seeks (or Create)
    lastP,     \* the offset those bytes were written from
    count,     \* the number of bytes the write calls accepted so far
    \* The streams BufReader and BufWriter give over a plain byte stream:
    adp        \* the unconsumed bytes, pending error and stream position of
               \* the one, the buffer, sticky error and output of the other,
               \* and what their last operation returned

rvars == <<rcur, rbuf, rerr, rclosed>>
wvars == <<wcur, wbuf, werr, wclosed>>
hvars == <<since, seekTo, snap, nseeks, lastB, lastP, count>>
vars == <<file, rvars, wvars, fatal, ret, hvars, adp>>

\* The last operation: its name, its arguments (kept for the seeks: the
\* offset, the whence and the number of bytes buffered when it was called),
\* the value and the bytes it returned, and its error.
RetA(op, arg, val, data, err) ==
    [op |-> op, arg |-> arg, val |-> val, data |-> data, err |-> err]

Ret(op, val, data, err) == RetA(op, <<>>, val, data, err)

\* BufReader(r), lines 62-64, and BufWriter(w), lines 56-58: new buffers,
\* empty, over a stream nothing was read from and one nothing was written
\* to (first, a BufReader that starts one byte into its stream).
BufStreams_ReaderSkipsOne ==
    [rbuf |-> <<>>, rerr |-> "nil", pos |-> 1,
     wbuf |-> <<>>, werr |-> "nil", out |-> <<>>, ret |-> Ret("Buf", 0, <<>>, "nil")]

BufStreams ==
    [rbuf |-> <<>>, rerr |-> "nil", pos |-> 0,
     wbuf |-> <<>>, werr |-> "nil", out |-> <<>>, ret |-> Ret("Buf", 0, <<>>, "nil")]

\* --------------------------------------------------------------- os.File
\* (*os.File).Read of n bytes at cursor cur: a regular file gives what is
\* there, (0, io.EOF) at or past the end; fail makes the read fail.
FileRead(f, cur, n, fail) ==
    IF n = 0 THEN [data |-> <<>>, err |-> "nil", cur |-> cur]
    ELSE IF fail THEN [data |-> <<>>, err |-> "EIO", cur |-> cur]
    ELSE IF cur >= Len(f) THEN [data |-> <<>>, err |-> "EOF", cur |-> cur]
    ELSE LET k == Min(n, Len(f) - cur)
         IN  [data |-> SubSeq(f, cur + 1, cur + k), err |-> "nil", cur |-> cur + k]

\* (*os.File).Seek: the resulting absolute position, or an error for an
\* invalid whence, a negative position or a failing handle.
FileSeek(f, cur, offset, whence, fail) ==
    LET target == CASE whence = 0 -> offset
                    [] whence = 1 -> cur + offset
                    [] whence = 2 -> Len(f) + offset
                    [] OTHER -> -1
    IN  IF fail \/ whence \notin {0, 1, 2} \/ target < 0
        THEN [off |-> 0, err |-> "EINVAL", cur |-> cur]
        ELSE [off |-> target, err |-> "nil", cur |-> target]

\* ----------------------------------------------------------- bufio.Reader
\* The state of a bufio.Reader with what it reads from: the unconsumed
\* bytes, the pending error, the position in the file or stream, and fa.
\* On a file fa >= 0 is the countdown to the handle read that fails (0: none
\* does); fa = -c stands for a plain stream (a pipe) whose reads give at
\* most c bytes each.
RS(buf, err, cur, fa) == [buf |-> buf, err |-> err, cur |-> cur, fa |-> fa]

\* io.Reader.Read of a plain stream holding f, at position pos, into n
\* bytes: at most c bytes of what is left, io.EOF when nothing is.
StreamRead(f, pos, n, c) ==
    IF n = 0 THEN [data |-> <<>>, err |-> "nil", cur |-> pos]
    ELSE IF pos >= Len(f) THEN [data |-> <<>>, err |-> "EOF", cur |-> pos]
    ELSE LET k == Min(Min(n, c), Len(f) - pos)
         IN  [data |-> SubSeq(f, pos + 1, pos + k), err |-> "nil", cur |-> pos + k]

\* One read of the handle, or of the plain stream, into n free bytes.
ReadHandle(f, rs, n) ==
    IF rs.fa < 0
    THEN LET h == StreamRead(f, rs.cur, n, 0 - rs.fa)
         IN  [data |-> h.data, err |-> h.err, rs |-> RS(rs.buf, rs.err, h.cur, rs.fa)]
    ELSE LET h == FileRead(f, rs.cur, n, rs.fa = 1)
         IN  [data |-> h.data, err |-> h.err,
              rs |-> RS(rs.buf, rs.err, h.cur, IF rs.fa > 0 THEN rs.fa - 1 ELSE 0)]

\* (*bufio.Reader).fill: slide the unconsumed bytes to the front and read
\* once into the free space.
bufioFill(f, rs) ==
    LET h == ReadHandle(f, rs, BufSize - Len(rs.buf))
    IN  RS(rs.buf \o h.data, h.err, h.rs.cur, h.rs.fa)

\* (*bufio.Reader).Read into a slice of n bytes.
bufioRead(f, rs, n) ==
    IF n = 0 THEN
        IF Len(rs.buf) > 0 THEN [rs |-> rs, data |-> <<>>, err |-> "nil"]
        ELSE [rs |-> RS(rs.buf, "nil", rs.cur, rs.fa), data |-> <<>>, err |-> rs.err]
    ELSE IF Len(rs.buf) = 0 THEN
        IF rs.err # "nil"
        THEN [rs |-> RS(<<>>, "nil", rs.cur, rs.fa), data |-> <<>>, err |-> rs.err]
        ELSE IF n >= BufSize
        THEN \* large read, empty buffer: read directly into the slice
             LET h == ReadHandle(f, rs, n)
             IN  [rs |-> RS(<<>>, "nil", h.rs.cur, h.rs.fa), data |-> h.data, err |-> h.err]
        ELSE LET h == ReadHandle(f, rs, BufSize)
             IN  IF Len(h.data) = 0
                 THEN [rs |-> RS(<<>>, "nil", h.rs.cur, h.rs.fa), data |-> <<>>, err |-> h.err]
                 ELSE [rs |-> RS(Drop(h.data, n), h.err, h.rs.cur, h.rs.fa),
                       data |-> Take(h.data, n), err |-> "nil"]
    ELSE [rs |-> RS(Drop(rs.buf, n), rs.err, rs.cur, rs.fa),
          data |-> Take(rs.buf, n), err |-> "nil"]

\* (*bufio.Reader).Peek(n): fill until n bytes are buffered or an error is
\* pending.
RECURSIVE bufioPeekFill(_, _, _)
bufioPeekFill(f, rs, n) ==
    IF Len(rs.buf) < n /\ rs.err = "nil" THEN bufioPeekFill(f, bufioFill(f, rs), n)
    ELSE rs

bufioPeek(f, rs, n) ==
    IF n > BufSize THEN [rs |-> rs, data |-> <<>>, err |-> "ErrBufferFull"]
    ELSE LET s == bufioPeekFill(f, rs, n)
         IN  IF Len(s.buf) < n
             THEN [rs |-> RS(s.buf, "nil", s.cur, s.fa), data |-> s.buf,
                   err |-> IF s.err = "nil" THEN "ErrBufferFull" ELSE s.err]
             ELSE [rs |-> s, data |-> Take(s.buf, n), err |-> "nil"]

\* (*bufio.Reader).ReadByte.
bufioReadByte(f, rs) ==
    LET s == IF Len(rs.buf) = 0 /\ rs.err = "nil" THEN bufioFill(f, rs) ELSE rs
    IN  IF Len(s.buf) = 0
        THEN [rs |-> RS(<<>>, "nil", s.cur, s.fa), c |-> 0, err |-> s.err]
        ELSE [rs |-> RS(Tail(s.buf), s.err, s.cur, s.fa), c |-> Head(s.buf), err |-> "nil"]

\* bytes.IndexByte, 1-based; 0 when c is not in s.
IndexByte(s, c) ==
    IF \E i \in 1 .. Len(s) : s[i] = c
    THEN CHOOSE i \in 1 .. Len(s) : s[i] = c /\ \A j \in 1 .. (i - 1) : s[j] # c
    ELSE 0

\* (*bufio.Reader).ReadBytes(delim): ReadSlice until the delimiter or an
\* error, collecting the full buffers in between.
RECURSIVE bufioReadBytes(_, _, _, _)
bufioReadBytes(f, rs, delim, acc) ==
    LET i == IndexByte(rs.buf, delim)
    IN  IF i > 0
        THEN [rs |-> RS(Drop(rs.buf, i), rs.err, rs.cur, rs.fa),
              data |-> acc \o Take(rs.buf, i), err |-> "nil"]
        ELSE IF rs.err # "nil"
        THEN [rs |-> RS(<<>>, "nil", rs.cur, rs.fa), data |-> acc \o rs.buf, err |-> rs.err]
        ELSE IF Len(rs.buf) >= BufSize
        THEN bufioReadBytes(f, RS(<<>>, rs.err, rs.cur, rs.fa), delim, acc \o rs.buf)
        ELSE bufioReadBytes(f, bufioFill(f, rs), delim, acc)

\* io.ReadFull(r, p) with len(p) = n: Read until n bytes or an error.
RECURSIVE ioReadFullLoop(_, _, _, _, _)
ioReadFullLoop(f, rs, n, acc, err) ==
    IF Len(acc) < n /\ err = "nil"
    THEN LET r == bufioRead(f, rs, n - Len(acc))
         IN  ioReadFullLoop(f, r.rs, n, acc \o r.data, r.err)
    ELSE [rs |-> rs, data |-> acc,
          err |-> IF Len(acc) >= n THEN "nil"
                  ELSE IF Len(acc) > 0 /\ err = "EOF" THEN "ErrUnexpectedEOF"
                  ELSE err]

ioReadFull(f, rs, n) == ioReadFullLoop(f, rs, n, <<>>, "nil")

\* ------------------------------------------------------------ bio.Reader
Rs(fa) == RS(rbuf, rerr, rcur, fa)

SetReader(rs) ==
    /\ rbuf' = rs.buf
    /\ rerr' = rs.err
    /\ rcur' = rs.cur

\* Reader.Seek, lines 75-77: a seek from the current position is corrected
\* by the number of bytes read ahead.
ReaderSeekOffset_Raw(offset, whence, buffered) == offset

ReaderSeekOffset(offset, whence, buffered) ==
    IF whence = 1 THEN offset - buffered ELSE offset

\* Reader.Seek, line 82: r.r.Reset(r.f) discards the buffer and the
\* pending error.
ReaderSeekReset_Keep(buf, err) == [buf |-> buf, err |-> err]

ReaderSeekReset(buf, err) == [buf |-> <<>>, err |-> "nil"]

\* Reader.Offset, line 102: the handle's cursor less the bytes read ahead.
ReaderOffsetValue_Raw(off, buffered) == off

ReaderOffsetValue(off, buffered) == off - buffered

ReaderSeek(offset, whence, fail) ==
    /\ ~fatal /\ ~rclosed
    /\ LET s == FileSeek(file, rcur, ReaderSeekOffset(offset, whence, Len(rbuf)),
                         whence, fail)
           b == ReaderSeekReset(rbuf, rerr)
       IN  /\ s.err = "nil" => s.off <= MaxPos
           /\ IF s.err # "nil"
              THEN /\ fatal' = TRUE
                   /\ ret' = Ret("RSeek", 0, <<>>, "fatal")
                   /\ UNCHANGED <<rcur, rbuf, rerr>>
              ELSE /\ rcur' = s.cur
                   /\ rbuf' = b.buf
                   /\ rerr' = b.err
                   /\ ret' = RetA("RSeek", <<offset, whence, Len(rbuf)>>, s.off, <<>>, "nil")
                   /\ UNCHANGED fatal
    /\ UNCHANGED <<file, rclosed, wvars, hvars>>

ReaderOffset(fail) ==
    /\ ~fatal /\ ~rclosed
    /\ LET s == FileSeek(file, rcur, 0, 1, fail)
       IN  IF s.err # "nil"
           THEN /\ fatal' = TRUE
                /\ ret' = Ret("ROffset", 0, <<>>, "fatal")
           ELSE /\ ret' = Ret("ROffset", ReaderOffsetValue(s.off, Len(rbuf)),
                              <<>>, "nil")
                /\ UNCHANGED fatal
    /\ UNCHANGED <<file, rcur, rbuf, rerr, rclosed, wvars, hvars>>

\* Bread, lines 127-132: the count io.ReadFull gives, or -1 when it gives
\* no byte and an error other than io.EOF (first, a Bread that takes the
\* end of the stream for an error too).
BreadResult_EndIsError(n, err) == IF n = 0 /\ err # "nil" THEN -1 ELSE n

BreadResult(n, err) == IF n = 0 /\ err # "nil" /\ err # "EOF" THEN -1 ELSE n

Bread(n, fa) ==
    /\ ~fatal /\ ~rclosed
    /\ LET r == ioReadFull(file, Rs(fa), n)
       IN  /\ SetReader(r.rs)
           /\ ret' = Ret("Bread", BreadResult(Len(r.data), r.err), r.data, "nil")
    /\ UNCHANGED <<file, rclosed, fatal, wvars, hvars>>

\* Bgetc, line 143: int(c) of a byte is its value 0..255 (first, the
\* conversion of a signed char, which maps 0xFF to -1).
ByteToInt_Signed(c) == IF c >= 128 THEN c - 256 ELSE c

ByteToInt(c) == c

Bgetc(fa) ==
    /\ ~fatal /\ ~rclosed
    /\ LET r == bufioReadByte(file, Rs(fa))
       IN  /\ SetReader(r.rs)
           /\ IF r.err # "nil"
              THEN IF r.err # "EOF"
                   THEN /\ fatal' = TRUE
                        /\ ret' = Ret("Bgetc", 0, <<>>, "fatal")
                   ELSE /\ ret' = Ret("Bgetc", EOF, <<>>, "nil")
                        /\ UNCHANGED fatal
              ELSE /\ ret' = Ret("Bgetc", ByteToInt(r.c), <<r.c>>, "nil")
                   /\ UNCHANGED fatal
    /\ UNCHANGED <<file, rclosed, wvars, hvars>>

ReaderRead(n, fa) ==
    /\ ~fatal /\ ~rclosed
    /\ LET r == bufioRead(file, Rs(fa), n)
       IN  /\ SetReader(r.rs)
           /\ ret' = Ret("Read", Len(r.data), r.data, r.err)
    /\ UNCHANGED <<file, rclosed, fatal, wvars, hvars>>

\* Reader.Peek, lines 150-152 (below it, a Peek that consumes what it returns).
ReaderPeek_Consumes(n, fa) ==
    /\ ~fatal /\ ~rclosed
    /\ LET r == bufioRead(file, Rs(fa), n)
       IN  /\ SetReader(r.rs)
           /\ ret' = Ret("Peek", Len(r.data), r.data, r.err)
    /\ UNCHANGED <<file, rclosed, fatal, wvars, hvars>>

ReaderPeek(n, fa) ==
    /\ ~fatal /\ ~rclosed
    /\ LET r == bufioPeek(file, Rs(fa), n)
       IN  /\ SetReader(r.rs)
           /\ ret' = Ret("Peek", Len(r.data), r.data, r.err)
    /\ UNCHANGED <<file, rclosed, fatal, wvars, hvars>>

\* byte(delim): the conversion keeps the low eight bits.
ByteOf(delim) == delim % 256

\* Brdline, lines 154-160 (first, a Brdline that strips the delimiter from
\* the line it returns).
Brdline_DropsDelimiter(delim, fa) ==
    /\ ~fatal /\ ~rclosed
    /\ LET r == bufioReadBytes(file, Rs(fa), ByteOf(delim), <<>>)
       IN  /\ SetReader(r.rs)
           /\ IF r.err # "nil"
              THEN /\ fatal' = TRUE
                   /\ ret' = Ret("Brdline", 0, <<>>, "fatal")
              ELSE /\ ret' = Ret("Brdline", Len(r.data) - 1, Take(r.data, Len(r.data) - 1), "nil")
                   /\ UNCHANGED fatal
    /\ UNCHANGED <<file, rclosed, wvars, hvars>>

Brdline(delim, fa) ==
    /\ ~fatal /\ ~rclosed
    /\ LET r == bufioReadBytes(file, Rs(fa), ByteOf(delim), <<>>)
       IN  /\ SetReader(r.rs)
           /\ IF r.err # "nil"
              THEN /\ fatal' = TRUE
                   /\ ret' = Ret("Brdline", 0, <<>>, "fatal")
              ELSE /\ ret' = Ret("Brdline", Len(r.data), r.data, "nil")
                   /\ UNCHANGED fatal
    /\ UNCHANGED <<file, rclosed, wvars, hvars>>

ReaderClose(fail) ==
    /\ ~fatal /\ ~rclosed
    /\ rclosed' = TRUE
    /\ ret' = Ret("RClose", 0, <<>>, IF fail THEN "EIO" ELSE "nil")
    /\ UNCHANGED <<file, rcur, rbuf, rerr, fatal, wvars, hvars>>

\* ----------------------------------------------------------- os.File, writing
\* f with the bytes d written at offset pos: a write past the end leaves a
\* hole that reads as zeros.
Overlay(f, pos, d) ==
    IF Len(d) = 0 THEN f
    ELSE LET top == IF pos + Len(d) > Len(f) THEN pos + Len(d) ELSE Len(f)
         IN  [i \in 1 .. top |->
                 IF i > pos /\ i <= pos + Len(d) THEN d[i - pos]
                 ELSE IF i <= Len(f) THEN f[i] ELSE 0]

\* (*os.File).Write of p at the cursor: all of p, or, when the write fails,
\* the first k bytes of p (fewer than all) and an error.
FileWrite(f, cur, p, fail, k) ==
    LET n == IF fail THEN Min(k, Len(p) - 1) ELSE Len(p)
    IN  [file |-> Overlay(f, cur, Take(p, n)), cur |-> cur + n, n |-> n,
         err |-> IF fail THEN "EIO" ELSE "nil"]

\* ----------------------------------------------------------- bufio.Writer
\* The state of a bufio.Writer with its handle and file: the buffered
\* bytes, the sticky error, the handle's cursor, the file, and the handle
\* write that fails: the fa-th from now (0: none), after fk bytes.
WS(buf, err, cur, f, fa, fk) ==
    [buf |-> buf, err |-> err, cur |-> cur, file |-> f, fa |-> fa, fk |-> fk]

\* One write of p to the handle.
WriteHandle(ws, p) ==
    LET h == FileWrite(ws.file, ws.cur, p, ws.fa = 1, ws.fk)
    IN  [n |-> h.n, err |-> h.err,
         ws |-> WS(ws.buf, ws.err, h.cur, h.file, IF ws.fa > 0 THEN ws.fa - 1 ELSE 0, ws.fk)]

\* (*bufio.Writer).Flush.
bufioFlush(ws) ==
    IF ws.err # "nil" \/ Len(ws.buf) = 0 THEN ws
    ELSE LET h == WriteHandle(ws, ws.buf)
         IN  IF h.err # "nil"
             THEN WS(Drop(ws.buf, h.n), h.err, h.ws.cur, h.ws.file, h.ws.fa, h.ws.fk)
             ELSE WS(<<>>, "nil", h.ws.cur, h.ws.file, h.ws.fa, h.ws.fk)

Available(ws) == BufSize - Len(ws.buf)

\* (*bufio.Writer).Write(p): nn is the number of bytes accepted.
RECURSIVE bufioWriteLoop(_, _, _)
bufioWriteLoop(ws, p, nn) ==
    IF Len(p) > Available(ws) /\ ws.err = "nil"
    THEN IF Len(ws.buf) = 0
         THEN \* large write, empty buffer: write directly from p
              LET h == WriteHandle(ws, p)
              IN  bufioWriteLoop(WS(<<>>, h.err, h.ws.cur, h.ws.file, h.ws.fa, h.ws.fk),
                                 Drop(p, h.n), nn + h.n)
         ELSE LET n == Available(ws)
                  full == WS(ws.buf \o Take(p, n), ws.err, ws.cur, ws.file, ws.fa, ws.fk)
              IN  bufioWriteLoop(bufioFlush(full), Drop(p, n), nn + n)
    ELSE IF ws.err # "nil" THEN [ws |-> ws, nn |-> nn, err |-> ws.err]
    ELSE [ws |-> WS(ws.buf \o p, ws.err, ws.cur, ws.file, ws.fa, ws.fk),
          nn |-> nn + Len(p), err |-> "nil"]

bufioWrite(ws, p) == bufioWriteLoop(ws, p, 0)

\* (*bufio.Writer).WriteString(s): as Write, but always through the buffer.
RECURSIVE bufioWriteStringLoop(_, _, _)
bufioWriteStringLoop(ws, p, nn) ==
    IF Len(p) > Available(ws) /\ ws.err = "nil"
    THEN LET n == Available(ws)
             full == WS(ws.buf \o Take(p, n), ws.err, ws.cur, ws.file, ws.fa, ws.fk)
         IN  bufioWriteStringLoop(bufioFlush(full), Drop(p, n), nn + n)
    ELSE IF ws.err # "nil" THEN [ws |-> ws, nn |-> nn, err |-> ws.err]
    ELSE [ws |-> WS(ws.buf \o p, ws.err, ws.cur, ws.file, ws.fa, ws.fk),
          nn |-> nn + Len(p), err |-> "nil"]

bufioWriteString(ws, p) == bufioWriteStringLoop(ws, p, 0)

\* (*bufio.Writer).WriteByte(c).
bufioWriteByte(ws, c) ==
    IF ws.err # "nil" THEN [ws |-> ws, nn |-> 0, err |-> ws.err]
    ELSE LET s == IF Available(ws) <= 0 THEN bufioFlush(ws) ELSE ws
         IN  IF s.err # "nil" THEN [ws |-> s, nn |-> 0, err |-> s.err]
             ELSE [ws |-> WS(s.buf \o <<c>>, s.err, s.cur, s.file, s.fa, s.fk),
                   nn |-> 1, err |-> "nil"]

\* ------------------------------------------------------------ bio.Writer
Ws(fa, fk) == WS(wbuf, werr, wcur, file, fa, fk)

SetWriter(ws) ==
    /\ wbuf' = ws.buf
    /\ werr' = ws.err
    /\ wcur' = ws.cur
    /\ file' = ws.file

WriterLive == ~fatal /\ ~wclosed

\* The offset the next accepted byte is due at, and the room left for it.
WriterLogical == wcur + Len(wbuf)

\* What the file is due to hold: what it was due to hold at the last Seek,
\* with the bytes accepted since written from the offset that Seek returned.
Want == Overlay(snap, seekTo, since)

Accept(p) ==
    /\ since' = since \o p
    /\ count' = count + Len(p)
    /\ UNCHANGED <<seekTo, snap, nseeks, lastB, lastP>>

\* Writer.Write, lines 66-68.
WriterWrite(p, fa, fk) ==
    /\ WriterLive
    /\ WriterLogical + Len(p) <= MaxFile
    /\ LET r == bufioWrite(Ws(fa, fk), p)
       IN  /\ SetWriter(r.ws)
           /\ Accept(Take(p, r.nn))
           /\ ret' = Ret("Write", r.nn, <<>>, r.err)
    /\ UNCHANGED <<rvars, wclosed, fatal>>

\* Writer.WriteString, lines 70-72.
WriterWriteString(p, fa, fk) ==
    /\ WriterLive
    /\ WriterLogical + Len(p) <= MaxFile
    /\ LET r == bufioWriteString(Ws(fa, fk), p)
       IN  /\ SetWriter(r.ws)
           /\ Accept(Take(p, r.nn))
           /\ ret' = Ret("WriteString", r.nn, <<>>, r.err)
    /\ UNCHANGED <<rvars, wclosed, fatal>>

\* Writer.WriteByte, lines 121-123.
WriterWriteByte(c, fa, fk) ==
    /\ WriterLive
    /\ WriterLogical + 1 <= MaxFile
    /\ LET r == bufioWriteByte(Ws(fa, fk), c)
       IN  /\ SetWriter(r.ws)
           /\ Accept(Take(<<c>>, r.nn))
           /\ ret' = Ret("WriteByte", r.nn, <<>>, r.err)
    /\ UNCHANGED <<rvars, wclosed, fatal>>

\* Writer.Flush, lines 117-119.
WriterFlush(fa, fk) ==
    /\ WriterLive
    /\ LET s == bufioFlush(Ws(fa, fk))
       IN  /\ SetWriter(s)
           /\ ret' = Ret("Flush", 0, <<>>, s.err)
    /\ UNCHANGED <<rvars, wclosed, fatal, hvars>>

\* Writer.Seek, line 87: the flush before the handle is moved.
WriterSeekFlush_None(ws) == ws

WriterSeekFlush(ws) == bufioFlush(ws)

\* Writer.Seek, lines 87-93: log.Fatalf when the flush fails, and when the
\* handle's seek fails (first, a Seek that lets a failed flush pass).
WriterSeekFatal_SeekOnly(flushErr, seekErr) == seekErr # "nil"

WriterSeekFatal(flushErr, seekErr) == flushErr # "nil" \/ seekErr # "nil"

\* Writer.Seek, lines 86-95.
WriterSeek(offset, whence, fa, fk, fail) ==
    /\ WriterLive
    /\ LET w == WriterSeekFlush(Ws(fa, fk))
           s == FileSeek(w.file, w.cur, offset, whence, fail)
       IN  /\ SetWriter(WS(w.buf, w.err, IF w.err = "nil" THEN s.cur ELSE w.cur,
                           w.file, 0, 0))
           /\ (w.err = "nil" /\ s.err = "nil") => s.off <= MaxFile
           /\ IF WriterSeekFatal(w.err, s.err)
              THEN /\ fatal' = TRUE
                   /\ ret' = Ret("WSeek", 0, <<>>, "fatal")
                   /\ UNCHANGED hvars
              ELSE /\ ret' = RetA("WSeek", <<offset, whence, Len(wbuf)>>, s.off, <<>>, "nil")
                   /\ lastB' = since
                   /\ lastP' = seekTo
                   /\ snap' = Want
                   /\ seekTo' = s.off
                   /\ since' = <<>>
                   /\ nseeks' = nseeks + 1
                   /\ UNCHANGED count
                   /\ UNCHANGED fatal
    /\ UNCHANGED <<rvars, wclosed>>

\* Writer.Offset, line 107: the flush before the cursor is asked for.
WriterOffsetFlush_None(ws) == ws

WriterOffsetFlush(ws) == bufioFlush(ws)

\* Writer.Offset, line 110: w.f.Seek(0, 1).
WriterOffsetSeek_FromStart(f, cur, fail) == FileSeek(f, cur, 0, 0, fail)

WriterOffsetSeek(f, cur, fail) == FileSeek(f, cur, 0, 1, fail)

\* Writer.Offset, lines 106-115; ret.arg keeps the number of bytes buffered
\* when it was called.
WriterOffset(fa, fk, fail) ==
    /\ WriterLive
    /\ LET w == WriterOffsetFlush(Ws(fa, fk))
           s == WriterOffsetSeek(w.file, w.cur, fail)
       IN  /\ SetWriter(WS(w.buf, w.err, IF w.err = "nil" THEN s.cur ELSE w.cur,
                           w.file, 0, 0))
           /\ IF w.err # "nil" \/ s.err # "nil"
              THEN /\ fatal' = TRUE
                   /\ ret' = Ret("WOffset", 0, <<>>, "fatal")
              ELSE /\ ret' = RetA("WOffset", <<Len(wbuf)>>, s.off, <<>>, "nil")
                   /\ UNCHANGED fatal
    /\ UNCHANGED <<rvars, wclosed, hvars>>

\* Writer.Close, line 167: the flush before the handle is released.
WriterCloseFlush_None(ws) == ws

WriterCloseFlush(ws) == bufioFlush(ws)

\* Writer.Close, lines 169-172: the flush's error goes before the close's.
WriterCloseResult_CloseFirst(err, err1) == IF err1 # "nil" THEN err1 ELSE err

WriterCloseResult(err, err1) == IF err = "nil" THEN err1 ELSE err

\* Writer.Close, lines 166-173; ret.arg keeps err and err1.
WriterClose(fa, fk, fail) ==
    /\ WriterLive
    /\ LET w == WriterCloseFlush(Ws(fa, fk))
           err1 == IF fail THEN "ECLOSE" ELSE "nil"
       IN  /\ SetWriter(w)
           /\ wclosed' = TRUE
           /\ ret' = RetA("WClose", <<w.err, err1>>, 0, <<>>, WriterCloseResult(w.err, err1))
    /\ UNCHANGED <<rvars, fatal, hvars>>

\* ------------------------------------------------- the Writer on a file
\* The handle write that fails in an operation: none, or the fa-th, after
\* fk bytes.
NoFail == <<0, 0>>
WriteFails == {NoFail} \cup ((1 .. MaxFailAt) \X (0 .. 1))

\* Create(name): an empty file, the cursor at 0, an empty buffer.  No
\* Reader is open.
InitW ==
    /\ file = <<>>
    /\ rcur = 0
    /\ rbuf = <<>>
    /\ rerr = "nil"
    /\ rclosed = TRUE
    /\ wcur = 0
    /\ wbuf = <<>>
    /\ werr = "nil"
    /\ wclosed = FALSE
    /\ fatal = FALSE
    /\ ret = Ret("Create", 0, <<>>, "nil")
    /\ since = <<>>
    /\ seekTo = 0
    /\ snap = <<>>
    /\ nseeks = 0
    /\ lastB = <<>>
    /\ lastP = 0
    /\ count = 0
    /\ adp = BufStreams

\* The failures of an operation that flushes and then seeks: a failing
\* flush ends it before the seek, so the seek fails only after a good flush.
SeekFails == {<<x[1], x[2], FALSE>> : x \in WriteFails} \cup {<<0, 0, TRUE>>}

\* The n bytes a write call passes.  The package copies bytes and never
\* looks at them, so each byte carries its own number, the count of bytes
\* accepted before it plus one: a byte dropped, doubled, moved or taken
\* from elsewhere then shows in the file, as it would not with equal bytes.
Fresh(n) == [i \in 1 .. n |-> count + i]

NextW ==
    \/ \E n \in 0 .. MaxIO, x \in WriteFails :
          WriterWrite(Fresh(n), x[1], x[2]) /\ UNCHANGED adp
    \/ \E n \in 0 .. MaxIO, x \in WriteFails :
          WriterWriteString(Fresh(n), x[1], x[2]) /\ UNCHANGED adp
    \/ \E x \in WriteFails : WriterWriteByte(count + 1, x[1], x[2]) /\ UNCHANGED adp
    \/ \E x \in WriteFails : WriterFlush(x[1], x[2]) /\ UNCHANGED adp
    \/ \E a \in SeekArgs, x \in SeekFails :
          nseeks < MaxSeeks /\ WriterSeek(a[1], a[2], x[1], x[2], x[3]) /\ UNCHANGED adp
    \/ \E x \in SeekFails : WriterOffset(x[1], x[2], x[3]) /\ UNCHANGED adp
    \/ \E x \in WriteFails, fail \in BOOLEAN :
          WriterClose(x[1], x[2], fail) /\ UNCHANGED adp

SpecW == InitW /\ [][NextW]_vars

\* ------------------------------------------------- the Reader on a file
\* Open(name) on a file of any content: the cursor at 0, an empty buffer.
InitR ==
    /\ file \in SeqsUpTo(Bytes, MaxFile)
    /\ rcur = 0
    /\ rbuf = <<>>
    /\ rerr = "nil"
    /\ rclosed = FALSE
    /\ wcur = 0
    /\ wbuf = <<>>
    /\ werr = "nil"
    /\ wclosed = TRUE
    /\ fatal = FALSE
    /\ ret = Ret("Open", 0, <<>>, "nil")
    /\ since = <<>>
    /\ seekTo = 0
    /\ snap = <<>>
    /\ nseeks = 0
    /\ lastB = <<>>
    /\ lastP = 0
    /\ count = 0
    /\ adp = BufStreams

NextR ==
    \/ \E a \in SeekArgs, fail \in BOOLEAN : ReaderSeek(a[1], a[2], fail) /\ UNCHANGED adp
    \/ \E fail \in BOOLEAN : ReaderOffset(fail) /\ UNCHANGED adp
    \/ \E n \in 0 .. MaxIO, fa \in 0 .. MaxFailAt : Bread(n, fa) /\ UNCHANGED adp
    \/ \E fa \in 0 .. MaxFailAt : Bgetc(fa) /\ UNCHANGED adp
    \/ \E n \in 0 .. MaxIO, fa \in 0 .. MaxFailAt : ReaderRead(n, fa) /\ UNCHANGED adp
    \/ \E n \in 0 .. MaxIO, fa \in 0 .. MaxFailAt : ReaderPeek(n, fa) /\ UNCHANGED adp
    \/ \E d \in Delims, fa \in 0 .. MaxFailAt : Brdline(d, fa) /\ UNCHANGED adp
    \/ \E fail \in BOOLEAN : ReaderClose(fail) /\ UNCHANGED adp

SpecR == InitR /\ [][NextR]_vars

\* ------------------------------- a Writer and a Reader on the same file
\* Create(name), then Open(name) on the file just created: both handles at
\* 0, both buffers empty.  No handle fails here.
InitRW ==
    /\ file = <<>>
    /\ rcur = 0
    /\ rbuf = <<>>
    /\ rerr = "nil"
    /\ rclosed = FALSE
    /\ wcur = 0
    /\ wbuf = <<>>
    /\ werr = "nil"
    /\ wclosed = FALSE
    /\ fatal = FALSE
    /\ ret = Ret("Create", 0, <<>>, "nil")
    /\ since = <<>>
    /\ seekTo = 0
    /\ snap = <<>>
    /\ nseeks = 0
    /\ lastB = <<>>
    /\ lastP = 0
    /\ count = 0
    /\ adp = BufStreams

\* The Writer writes at most MaxFile bytes in all, over its Seeks.
Room(n) == count + n <= MaxFile

NextRW ==
    \/ \E n \in 0 .. MaxIO : Room(n) /\ WriterWrite(Fresh(n), 0, 0) /\ UNCHANGED adp
    \/ \E n \in 0 .. MaxIO : Room(n) /\ WriterWriteString(Fresh(n), 0, 0) /\ UNCHANGED adp
    \/ Room(1) /\ WriterWriteByte(count + 1, 0, 0) /\ UNCHANGED adp
    \/ \E a \in SeekArgs :
          nseeks < MaxSeeksBack /\ WriterSeek(a[1], a[2], 0, 0, FALSE) /\ UNCHANGED adp
    \/ \E o \in 0 .. MaxFile : ReaderSeek(o, 0, FALSE) /\ UNCHANGED adp
    \/ \E n \in 0 .. MaxIO : Bread(n, 0) /\ UNCHANGED adp

SpecRW == InitRW /\ [][NextRW]_vars

\* What Offset() returns in the current state (no handle failure).
ReaderOffsetNow == ReaderOffsetValue(FileSeek(file, rcur, 0, 1, FALSE).off, Len(rbuf))

ReaderLive == ~fatal /\ ~rclosed

\* The bytes of f from offset off on, at most n of them.
FileAt(f, off, n) == SubSeq(f, off + 1, Min(off + n, Len(f)))

\* C1: in every state a live Reader reaches, Offset() is the handle's raw
\* cursor less the number of buffered, unconsumed bytes, and it is the file
\* offset of the next byte a read delivers: whatever Read, Bread, Bgetc,
\* Peek or Brdline deliver next is the file's content from that offset on,
\* and they deliver at least one byte when the file has one there.
C1_OffsetIsNextByte ==
    ReaderLive =>
        LET off == ReaderOffsetNow
        IN  /\ off = rcur - Len(rbuf)
            /\ off >= 0
            /\ \A n \in 1 .. MaxIO :
                  LET r == bufioRead(file, Rs(0), n)
                      b == ioReadFull(file, Rs(0), n)
                      p == bufioPeek(file, Rs(0), n)
                  IN  /\ r.data = FileAt(file, off, Len(r.data))
                      /\ b.data = FileAt(file, off, n)
                      /\ p.data = FileAt(file, off, Len(p.data))
                      /\ off < Len(file) => Len(r.data) >= 1
            /\ LET c == bufioReadByte(file, Rs(0))
               IN  IF off < Len(file) THEN c.err = "nil" /\ c.c = file[off + 1]
                   ELSE c.err = "EOF"
            /\ \A d \in Delims :
                  LET l == bufioReadBytes(file, Rs(0), ByteOf(d), <<>>)
                  IN  /\ l.data = FileAt(file, off, Len(l.data))
                      /\ off < Len(file) => Len(l.data) >= 1

\* C1 witness: a Read returned one byte and left read-ahead in the buffer,
\* so the raw cursor is ahead of the logical position, which is not 0.
C1_Witness ==
    /\ ReaderLive /\ ret.op = "Read" /\ ret.val = 1
    /\ Len(rbuf) > 0 /\ rcur - Len(rbuf) > 0

\* C2: a Seek(k, from-current) that returns lands at the logical position
\* before the call plus k: it returns that offset and Offset() then gives it.
C2_RelativeSeekIsLogical ==
    [][(ret'.op = "RSeek" /\ ret'.err = "nil" /\ ret'.arg[2] = 1) =>
           /\ ret'.val = (rcur - Len(rbuf)) + ret'.arg[1]
           /\ ReaderOffsetNow' = (rcur - Len(rbuf)) + ret'.arg[1]]_vars

\* C2 witness: Seek(0, from-current) was called with read-ahead in the
\* buffer after one byte had been read, and returned 1.
C2_Witness ==
    /\ ret.op = "RSeek" /\ ret.err = "nil" /\ ret.arg[1] = 0 /\ ret.arg[2] = 1 /\ ret.arg[3] > 0
    /\ ret.val = 1 /\ rcur = 1 /\ ReaderOffsetNow = 1

\* The Reader's bufio state after the step, no handle failure pending.
RsAfter == RS(rbuf', rerr', rcur', 0)

\* Offset() of a bufio state rs.
OffsetOf(rs) == ReaderOffsetValue(FileSeek(file, rs.cur, 0, 1, FALSE).off, Len(rs.buf))

\* A step is a successful Peek(n): Peek then returns n bytes.
PeekStep(n) == ret'.op = "Peek" /\ ret'.err = "nil" /\ ret'.val = n

\* Peek leaves Offset() as it was, and a Read of n bytes right after a
\* successful Peek(n) delivers the bytes Peek returned.
PeekKeepsPosition ==
    /\ ret'.op = "Peek" => ReaderOffsetNow' = ReaderOffsetNow
    /\ (ret.op = "Peek" /\ ret.err = "nil" /\ ret'.op = "Read") =>
           (ReaderRead(ret.val, 0) => (ret'.data = ret.data /\ ret'.err = "nil"))

C9_SeekEndAndStart ==
    [][/\ (ret'.op = "RSeek" /\ ret'.err = "nil" /\ ret'.arg[1] = 0) =>
              /\ ret'.arg[2] = 2 => ret'.val = Len(file)
              /\ ret'.arg[2] = 0 => ret'.val = 0
       /\ (ret.op = "RSeek" /\ ret.err = "nil" /\ ret'.op = "ROffset"
              /\ ret'.err = "nil") =>
              /\ (ret.arg[1] = 0 /\ ret.arg[2] = 2) => ret'.val = Len(file)
              /\ (ret.arg[1] = 0 /\ ret.arg[2] = 0) => ret'.val = 0]_vars

\* C9 witness: Offset() returned the length of a non-empty file while the
\* handle's cursor is there with nothing buffered, as after Seek(0, from-end).
C9_Witness ==
    /\ ret.op = "ROffset" /\ ret.err = "nil"
    /\ Len(file) > 1 /\ ret.val = Len(file) /\ rbuf = <<>> /\ rerr = "nil"

\* ---------------------------------------------------------------- Writer
\* C3: a Seek of the Writer that returns has flushed first: the file then
\* holds every byte the write calls accepted before it at the offset it was
\* written to, nothing is left in the buffer to be written at or after the
\* seek's target, and Seek returns the handle's resulting position.
C3_SeekFlushesFirst ==
    [][(ret'.op = "WSeek" /\ ret'.err = "nil") =>
           /\ file' = Want
           /\ wbuf' = <<>>
           /\ ret'.val = wcur']_vars

\* C3 witness: Seek was called with bytes in the buffer, went back into
\* what had been written, and the file holds all of it.
C3_Witness ==
    /\ ret.op = "WSeek" /\ ret.err = "nil" /\ ret.arg[3] > 0
    /\ ret.val < Len(file) /\ Len(file) = MaxFile /\ file = snap /\ wbuf = <<>>

\* C4: after Create and any Write, WriteString, WriteByte and Flush calls,
\* with no Seek and no I/O error, Close leaves a file that is exactly the
\* bytes passed to the write calls, in call order.
C4_FileIsWhatWasWritten ==
    (ret.op = "WClose" /\ ret.err = "nil" /\ nseeks = 0) =>
        /\ file = since
        /\ file = [i \in 1 .. count |-> i]

\* C4 witness: a file of more bytes than the buffer holds was closed
\* without a Seek or an error.
C4_Witness ==
    /\ ret.op = "WClose" /\ ret.err = "nil" /\ nseeks = 0 /\ wclosed
    /\ Len(file) = MaxFile /\ file = since

\* C5: Close flushes the buffered bytes to the handle and then releases
\* the handle; it releases the handle whether or not the flush succeeded;
\* it returns the flush's error when the flush failed, also when the
\* release fails too, otherwise the release's error, otherwise nil.
C5_CloseFlushesThenReleases ==
    [][ret'.op = "WClose" =>
           LET ferr == ret'.arg[1]
               cerr == ret'.arg[2]
           IN  /\ wclosed'
               /\ (ferr = "nil") <=> (werr' = "nil")
               /\ werr # "nil" => ferr = werr
               /\ ferr = "nil" => (wbuf' = <<>> /\ file' = Overlay(file, wcur, wbuf))
               /\ ferr # "nil" => ret'.err = ferr
               /\ (ferr = "nil" /\ cerr # "nil") => ret'.err = cerr
               /\ (ferr = "nil" /\ cerr = "nil") => ret'.err = "nil"]_vars

\* C5 witness: the flush and the release both failed, the handle is
\* released and Close returned the flush's error.
C5_Witness ==
    /\ ret.op = "WClose" /\ wclosed
    /\ ret.arg[1] = "EIO" /\ ret.arg[2] = "ECLOSE" /\ ret.err = "EIO"

\* C6: after Create, writing n bytes and Seek(p, from-start) with p < n,
\* Offset() returns p; after then writing m bytes with p + m <= n, Close
\* leaves a file of n bytes whose bytes p .. p+m-1 are the new ones and
\* whose other bytes are the ones written first.
C6_OverwriteInPlace ==
    [][/\ (ret.op = "WSeek" /\ ret.err = "nil" /\ ret.arg[2] = 0
              /\ ret'.op = "WOffset" /\ ret'.err = "nil") => ret'.val = ret.arg[1]
       /\ (ret'.op = "WClose" /\ ret'.err = "nil" /\ nseeks = 1 /\ lastP = 0
              /\ seekTo < Len(lastB) /\ seekTo + Len(since) <= Len(lastB)) =>
              /\ Len(file') = Len(lastB)
              /\ \A i \in 1 .. Len(lastB) :
                    file'[i] = IF i > seekTo /\ i <= seekTo + Len(since)
                               THEN since[i - seekTo] ELSE lastB[i]]_vars

\* C6 witness: three bytes were written, the Writer sought to offset 1,
\* wrote one byte and closed: the file is the three bytes with the second
\* one replaced.
C6_Witness ==
    /\ ret.op = "WClose" /\ ret.err = "nil" /\ nseeks = 1
    /\ Len(lastB) = 3 /\ seekTo = 1 /\ Len(since) = 1
    /\ file = <<lastB[1], since[1], lastB[3]>>

\* C7: on a newly created file, after any writes followed by Flush,
\* Offset() is the total number of bytes written.
C7_OffsetAfterFlushIsTotal ==
    [][(ret.op = "Flush" /\ ret.err = "nil" /\ nseeks = 0
          /\ ret'.op = "WOffset" /\ ret'.err = "nil") =>
           /\ ret'.val = count
           /\ ret'.val = Len(file)]_vars

\* C7 witness: Offset() was called with an empty buffer, as after Flush,
\* and returned the number of bytes written, more than the buffer holds.
C7_Witness ==
    /\ ret.op = "WOffset" /\ ret.err = "nil" /\ ret.arg[1] = 0
    /\ nseeks = 0 /\ count > BufSize /\ ret.val = count

\* ------------------------------------------------------------ round trip
\* C10: after the Writer wrote the bytes B from offset p on and then
\* sought (which flushes), a Reader on the same file that seeks to p and
\* reads Len(B) bytes gets exactly B, however B went through the write
\* buffer.  B is lastB and p is lastP once the Writer's Seek returned and
\* while it has written nothing since.
C10_RoundTrip ==
    [][(/\ ret.op = "RSeek" /\ ret.err = "nil" /\ ret.val = lastP
        /\ nseeks > 0 /\ since = <<>> /\ ~fatal
        /\ ret'.op = "Bread" /\ Bread(Len(lastB), 0)) =>
           /\ ret'.data = lastB
           /\ ret'.val = Len(lastB)]_vars

\* C10 witness: the Writer sought to offset 1, wrote two bytes, which fill
\* its buffer, and sought back; the Reader, which had read the file before,
\* sought to 1 and read the two bytes.
C10_Witness ==
    /\ ret.op = "Bread" /\ ret.val = 2 /\ ret.data = lastB
    /\ nseeks = 2 /\ since = <<>> /\ lastP = 1 /\ seekTo < lastP + Len(lastB)
    /\ rcur = lastP + Len(lastB) /\ Len(file) = MaxFile

\* ------------------------------------------------------- Brdline, C11, C12
\* The unread bytes of the file, from Offset() to its end.
Unread == FileAt(file, ReaderOffsetNow, Len(file))

\* C11: Brdline at the end of the stream is not fatal: on a handle that does
\* not fail, a Brdline whose unread remainder has no delimiter returns the
\* remaining bytes, a Brdline at the end of the stream returns none and
\* reports a clean end, and no such call terminates the operation.
C11_BrdlineEndOfStreamNotFatal ==
    [][ret'.op = "Brdline" =>
           \A d \in Delims :
               Brdline(d, 0) =>
                   /\ ~fatal'
                   /\ IndexByte(Unread, d % 256) = 0 =>
                          (ret'.data = Unread /\ ReaderOffsetNow' = Len(file))]_vars

\* Two Brdline calls, one after the other, on a file just opened.
TwoLines(f, delim) ==
    LET r1 == bufioReadBytes(f, RS(<<>>, "nil", 0, 0), ByteOf(delim), <<>>)
        r2 == bufioReadBytes(f, r1.rs, ByteOf(delim), <<>>)
    IN  <<r1, r2>>

\* C12: a Brdline that returns gives the shortest prefix of the unread bytes
\* that ends with the delimiter, the delimiter included, and moves Offset()
\* forward by exactly its length, so that successive calls return successive
\* segments of the file, also when a segment is longer than what is buffered
\* and the buffer is refilled on the way; it returns whenever the delimiter
\* is among the unread bytes and the handle does not fail; "ab;cd;" read
\* with ';' gives "ab;" and then "cd;".
C12_BrdlineSegments ==
    [][ret'.op = "Brdline" =>
           /\ \A d \in Delims, fa \in 0 .. MaxFailAt :
                  Brdline(d, fa) =>
                      LET i == IndexByte(Unread, d % 256)
                      IN  /\ ~fatal' =>
                                 /\ i > 0
                                 /\ ret'.data = Take(Unread, i)
                                 /\ ret'.val = i
                                 /\ ReaderOffsetNow' = ReaderOffsetNow + i
                          /\ (i > 0 /\ fa = 0) => ~fatal'
           /\ LET t == TwoLines(<<97, 98, 59, 99, 100, 59>>, 59)
              IN  /\ t[1].data = <<97, 98, 59>> /\ t[1].err = "nil"
                  /\ t[2].data = <<99, 100, 59>> /\ t[2].err = "nil"
                  /\ t[2].rs.cur - Len(t[2].rs.buf) = 6]_vars

\* The second line of ";" 0xFF ";" read with ';': one byte of it was
\* buffered, the other came with a refill.
C12_Witness ==
    /\ file = <<59, 255, 59>> /\ ~fatal
    /\ ret.op = "Brdline" /\ ret.data = <<255, 59>>
    /\ rcur = 3 /\ rbuf = <<>>

\* ------------------------------------------------------------- Bread, C13
\* C13: Bread(p) fills p until it is full or the stream ends and returns the
\* number of bytes filled, which are the file's bytes from Offset() on; on a
\* handle that does not fail that is the smaller of len(p) and the bytes
\* left, 0 at the end of the stream; it returns -1 only when it got no byte
\* and the handle failed, and when the handle fails after some bytes were
\* got it returns their positive count.
C13_BreadCount ==
    [][ret'.op = "Bread" =>
           \A n \in 0 .. MaxIO, fa \in 0 .. MaxFailAt :
               Bread(n, fa) =>
                   /\ ret'.val \in (-1) .. n
                   /\ ret'.val >= 0 =>
                          /\ ret'.val = Len(ret'.data)
                          /\ ret'.data = FileAt(file, ReaderOffsetNow, ret'.val)
                          /\ ReaderOffsetNow' = ReaderOffsetNow + ret'.val
                   /\ ret'.val = -1 =>
                          /\ fa > 0 /\ n > 0 /\ rbuf = <<>>
                          /\ ReaderOffsetNow' = ReaderOffsetNow
                   /\ fa = 0 => ret'.val = Len(FileAt(file, ReaderOffsetNow, n))
                   /\ (fa = 1 /\ n > Len(rbuf)) =>
                          ret'.val = (IF rbuf = <<>> THEN -1 ELSE Len(rbuf))]_vars

\* Bread has returned -1 on a file that had bytes left to read.
C13_Witness ==
    /\ ret.op = "Bread" /\ ret.val = -1
    /\ ReaderOffsetNow = 1 /\ Len(file) = MaxFile /\ ~fatal

\* ------------------------------------------------------------- Bgetc, C14
\* C14: Bgetc returns the next byte of the file as a value 0..255 and moves
\* Offset() forward by one, or returns EOF = -1 at the end of the stream and
\* leaves Offset() where it was; the sentinel is never returned for a byte
\* that is there (0xFF comes back as 255); a failing handle terminates the
\* operation, and nothing else does.
C14_BgetcByteOrEOF ==
    [][ret'.op = "Bgetc" =>
           \A fa \in 0 .. MaxFailAt :
               Bgetc(fa) =>
                   /\ ~fatal' =>
                          IF Unread # <<>>
                          THEN /\ ret'.val = Head(Unread)
                               /\ ret'.val \in 0 .. 255 /\ ret'.val # EOF
                               /\ ReaderOffsetNow' = ReaderOffsetNow + 1
                          ELSE /\ ret'.val = EOF
                               /\ ReaderOffsetNow' = ReaderOffsetNow
                   /\ fatal' <=> (fa = 1 /\ rbuf = <<>>)]_vars

\* Bgetc has returned 255 for the byte 0xFF, the last of the file, and the
\* Reader now stands at the end of the stream.
C14_Witness ==
    /\ ret.op = "Bgetc" /\ ret.val = 255 /\ ret.data = <<255>>
    /\ ReaderOffsetNow = Len(file) /\ Len(file) = MaxFile /\ ~fatal

\* ------------------------------------------------------- Reader.Seek, C17
\* The operations of the Reader that deliver bytes.
ReadOps == {"Read", "Bread", "Bgetc", "Peek", "Brdline"}

\* C17: a Seek of the Reader that returns, whatever its whence and also when
\* it seeks to the current position, leaves nothing buffered and no pending
\* error, the handle's cursor at the offset it returns, and the read that
\* follows it delivers the file's bytes from that offset on (all that were
\* asked for, if the file has them and the handle does not fail), not the
\* bytes that were buffered before.
C17_SeekDiscardsReadAhead ==
    [][/\ (ret'.op = "RSeek" /\ ret'.err = "nil") =>
              /\ rbuf' = <<>> /\ rerr' = "nil"
              /\ rcur' = ret'.val
              /\ ReaderOffsetNow' = ret'.val
       /\ (ret.op = "RSeek" /\ ret.err = "nil" /\ ret'.op \in ReadOps
              /\ ret'.err # "fatal") =>
              /\ ret'.data = FileAt(file, ret.val, Len(ret'.data))
              /\ \A n \in 0 .. MaxIO :
                     Bread(n, 0) => ret'.data = FileAt(file, ret.val, n)]_vars

\* The Reader sought to its current position (0 from current) while two
\* bytes were read ahead, and they are gone.
C17_Witness ==
    /\ ret.op = "RSeek" /\ ret.err = "nil"
    /\ ret.arg = <<0, 1, 2>> /\ ret.val = 1
    /\ rbuf = <<>> /\ rcur = 1 /\ Len(file) = MaxFile

\* ------------------------------------------------ Writer positions, C19
\* C19: the Writer's seeks are relative to its logical position P, the
\* handle's cursor plus the bytes in the write buffer before the call:
\* Seek(k, from-current) returns P + k, Offset() returns P, and when either
\* returns the buffer is empty and the handle's cursor is the logical
\* position, which is the value returned.
C19_WriterSeeksAreLogical ==
    [][/\ (ret'.op = "WSeek" /\ ret'.err = "nil" /\ ret'.arg[2] = 1) =>
              ret'.val = WriterLogical + ret'.arg[1]
       /\ (ret'.op = "WOffset" /\ ret'.err = "nil") =>
              ret'.val = WriterLogical
       /\ (ret'.op \in {"WSeek", "WOffset"} /\ ret'.err = "nil") =>
              /\ wbuf' = <<>>
              /\ wcur' = ret'.val
              /\ WriterLogical' = ret'.val]_vars

\* Seek(-1, from-current) with two bytes in the file and one in the buffer
\* returned 2.
C19_Witness ==
    /\ ret.op = "WSeek" /\ ret.err = "nil"
    /\ ret.arg = <<-1, 1, 1>> /\ ret.val = 2
    /\ wcur = 2 /\ wbuf = <<>> /\ Len(file) = 3

\* ------------------------------------------------- fatal failures, C18
\* A Reader on a file, or a Writer on a file, with failing handles.
InitF == InitR \/ InitW

NextF == NextR \/ NextW

SpecF == InitF /\ [][NextF]_vars

SeekOps == {"RSeek", "ROffset", "WSeek", "WOffset"}

\* The handle's seek of Writer.Seek(offset, whence) fails, its flush done.
WriterSeekFails(offset, whence, fail) ==
    FileSeek(file', WriterLogical, offset, whence, fail).err # "nil"

\* C18: a failure inside Seek or Offset is fatal and never returned: the
\* call returns an offset only when nothing failed.  When the flush inside
\* Writer.Seek or Writer.Offset fails, the call terminates with the handle's
\* cursor where the flush left it (no seek was issued: cursor plus buffered
\* bytes is what it was); when the handle's seek fails, the call terminates,
\* in the Writer with the buffer flushed and the cursor not moved further,
\* in the Reader with buffer and cursor as they were; and after a fatal
\* failure no operation of the stream takes place.
C18_SeekFailuresAreFatal ==
    [][/\ ~fatal
       /\ ret'.op \in SeekOps =>
              /\ ret'.err \in {"nil", "fatal"}
              /\ fatal' <=> ret'.err = "fatal"
              /\ fatal' => (ret'.val = 0 /\ ret'.arg = <<>>)
       /\ ret'.op \in {"WSeek", "WOffset"} =>
              /\ werr' # "nil" => (fatal' /\ WriterLogical' = WriterLogical)
              /\ (fatal' /\ werr' = "nil") =>
                     (wbuf' = <<>> /\ wcur' = WriterLogical)
       /\ (ret'.op = "WSeek" /\ ~fatal') =>
              /\ ~WriterSeekFails(ret'.arg[1], ret'.arg[2], FALSE)
              /\ ~WriterSeek(ret'.arg[1], ret'.arg[2], 0, 0, TRUE)
       /\ (ret'.op = "WOffset" /\ ~fatal') => ~WriterOffset(0, 0, TRUE)
       /\ (ret'.op \in {"RSeek", "ROffset"} /\ fatal') =>
              (rbuf' = rbuf /\ rcur' = rcur /\ rerr' = rerr)
       /\ (ret'.op = "RSeek" /\ ~fatal') =>
              ~ReaderSeek(ret'.arg[1], ret'.arg[2], TRUE)
       /\ (ret'.op = "ROffset" /\ ~fatal') => ~ReaderOffset(TRUE)]_vars

\* Writer.Seek has terminated on a flush that failed after one of two
\* buffered bytes was written: the cursor is behind that byte, the other
\* is still in the buffer.
C18_Witness ==
    /\ fatal /\ ret.op = "WSeek" /\ ret.err = "fatal"
    /\ werr # "nil" /\ wcur = 1 /\ Len(wbuf) = 1 /\ Len(file) = 1

\* --------------------------------------------- Writer.Offset, C20
\* What a caller can come to see of a Writer state ws: the content the file
\* is due to have once the buffer is written, and the logical position.
Seen(ws) == [content |-> Overlay(ws.file, ws.cur, ws.buf),
             pos |-> ws.cur + Len(ws.buf), err |-> ws.err]

\* Writer.Seek(offset, whence), Writer.Offset() and Writer.Close() applied
\* to a Writer state ws on handles that do not fail: the state they leave
\* and what they return.
WriterSeekOf(ws, offset, whence) ==
    LET w == WriterSeekFlush(ws)
        s == FileSeek(w.file, w.cur, offset, whence, FALSE)
    IN  [ws |-> WS(w.buf, w.err, s.cur, w.file, 0, 0), val |-> s.off,
         err |-> IF WriterSeekFatal(w.err, s.err) THEN "fatal" ELSE "nil"]

WriterOffsetOf(ws) ==
    LET w == WriterOffsetFlush(ws)
        s == WriterOffsetSeek(w.file, w.cur, FALSE)
    IN  [ws |-> WS(w.buf, w.err, s.cur, w.file, 0, 0), val |-> s.off, err |-> s.err]

WriterCloseOf(ws) ==
    LET w == WriterCloseFlush(ws)
    IN  [ws |-> w, val |-> 0, err |-> WriterCloseResult(w.err, "nil")]

\* Two results of a write call, or of a Seek, Offset or Close, that a caller
\* cannot tell apart.
SameWrite(r1, r2) == r1.nn = r2.nn /\ r1.err = r2.err /\ Seen(r1.ws) = Seen(r2.ws)

SameCall(r1, r2) == r1.val = r2.val /\ r1.err = r2.err /\ Seen(r1.ws) = Seen(r2.ws)

\* C20: a returning Offset() of the Writer cannot be observed, though it
\* flushes: it leaves the content the file is due to have, the logical
\* position and the record of what was written as they were, moving only
\* buffered bytes to the handle; and each operation that can follow (Write,
\* WriteString, WriteByte, Flush, Seek, Offset, Close, on handles that do
\* not fail) returns the same values and leaves the same due content and
\* logical position after it as without it.  By induction over the calls,
\* inserting Offset() calls into an error-free sequence changes neither the
\* final file nor what the other Seek and Offset calls return.
C20_OffsetIsTransparent ==
    [][(ret'.op = "WOffset" /\ ret'.err = "nil") =>
           LET s == WS(wbuf, werr, wcur, file, 0, 0)
               t == WS(wbuf', werr', wcur', file', 0, 0)
           IN  /\ Seen(t) = Seen(s)
               /\ UNCHANGED hvars
               /\ \A n \in 0 .. MaxIO :
                      /\ SameWrite(bufioWrite(s, Fresh(n)), bufioWrite(t, Fresh(n)))
                      /\ SameWrite(bufioWriteString(s, Fresh(n)),
                                   bufioWriteString(t, Fresh(n)))
               /\ SameWrite(bufioWriteByte(s, count + 1), bufioWriteByte(t, count + 1))
               /\ Seen(bufioFlush(s)) = Seen(bufioFlush(t))
               /\ \A a \in SeekArgs : SameCall(WriterSeekOf(s, a[1], a[2]), WriterSeekOf(t, a[1], a[2]))
               /\ SameCall(WriterOffsetOf(s), WriterOffsetOf(t))
               /\ SameCall(WriterCloseOf(s), WriterCloseOf(t))
               /\ WriterCloseOf(s).ws.file = WriterCloseOf(t).ws.file]_vars

\* Offset() returned 2 after a Seek back to 1 and one byte written there:
\* that byte was in the buffer and is now in the file, whose length is
\* still 3.
C20_Witness ==
    /\ ret.op = "WOffset" /\ ret.err = "nil" /\ ret.arg = <<1>>
    /\ nseeks = 1 /\ seekTo = 1 /\ Len(since) = 1 /\ ret.val = 2
    /\ Len(file) = 3 /\ file[2] = since[1] /\ wbuf = <<>>

\* ------------------------- the buffer reached through the accessors, C16
\* (*bufio.Reader).Discard(n): skip the next n bytes, filling the buffer as
\* often as needed; fewer are skipped when the stream ends or fails first.
RECURSIVE bufioDiscardLoop(_, _, _, _)
bufioDiscardLoop(f, rs, n, remain) ==
    LET s == IF Len(rs.buf) = 0 THEN bufioFill(f, rs) ELSE rs
        skip == Min(Len(s.buf), remain)
        t == RS(Drop(s.buf, skip), s.err, s.cur, s.fa)
    IN  IF remain - skip = 0 THEN [rs |-> t, n |-> n, err |-> "nil"]
        ELSE IF t.err # "nil"
        THEN [rs |-> RS(t.buf, "nil", t.cur, t.fa), n |-> n - (remain - skip), err |-> t.err]
        ELSE bufioDiscardLoop(f, t, n, remain - skip)

bufioDiscard(f, rs, n) ==
    IF n = 0 THEN [rs |-> rs, n |-> 0, err |-> "nil"]
    ELSE bufioDiscardLoop(f, rs, n, n)

\* Reader.Reader, line 30: the caller gets the Reader's bufio.Reader and
\* calls Discard(n) on it.
ReaderReaderDiscard(n, fa) ==
    /\ ~fatal /\ ~rclosed
    /\ LET r == bufioDiscard(file, Rs(fa), n)
       IN  /\ SetReader(r.rs)
           /\ ret' = Ret("Reader().Discard", r.n, <<>>, r.err)
    /\ UNCHANGED <<file, rclosed, fatal, wvars, hvars>>

\* Writer.Writer, line 33: the caller gets the Writer's bufio.Writer and
\* calls Flush() on it.
WriterWriterFlush(fa, fk) ==
    /\ WriterLive
    /\ LET s == bufioFlush(Ws(fa, fk))
       IN  /\ SetWriter(s)
           /\ ret' = Ret("Writer().Flush", 0, <<>>, s.err)
    /\ UNCHANGED <<rvars, wclosed, fatal, hvars>>

\* A Reader or a Writer on a file, used through its operations and through
\* what its accessor returns.
NextX ==
    \/ NextR
    \/ NextW
    \/ \E n \in 0 .. MaxIO, fa \in 0 .. MaxFailAt :
          ReaderReaderDiscard(n, fa) /\ UNCHANGED adp
    \/ \E x \in WriteFails : WriterWriterFlush(x[1], x[2]) /\ UNCHANGED adp

SpecX == InitF /\ [][NextX]_vars

\* The operations of the streams, and the calls made through the accessors.
StreamOps ==
    ReadOps \cup SeekOps \cup {"RClose", "Write", "WriteString", "WriteByte", "Flush", "WClose"}

AccessorOps == {"Reader().Discard", "Writer().Flush"}

AdapterRs(c) == RS(adp.rbuf, adp.rerr, adp.pos, 0 - c)

SetAdapterReader(rs, r) ==
    adp' = [adp EXCEPT !.rbuf = rs.buf, !.rerr = rs.err, !.pos = rs.cur, !.ret = r]

\* The bufio.Writer of the stream BufWriter gave: its stream takes what is
\* written to it, after what it took before.
AdapterWs == WS(adp.wbuf, adp.werr, Len(adp.out), adp.out, 0, 0)

SetAdapterWriter(ws, r) ==
    adp' = [adp EXCEPT !.wbuf = ws.buf, !.werr = ws.err, !.out = ws.file, !.ret = r]

\* The sequential operations, lines 66-72 and 117-160, on those streams:
\* the same methods, on a Reader and a Writer whose f is nil.
AdapterRead(n, c) ==
    LET r == bufioRead(file, AdapterRs(c), n)
    IN  SetAdapterReader(r.rs, Ret("Read", Len(r.data), r.data, r.err))

AdapterPeek(n, c) ==
    LET r == bufioPeek(file, AdapterRs(c), n)
    IN  SetAdapterReader(r.rs, Ret("Peek", Len(r.data), r.data, r.err))

AdapterBread(n, c) ==
    LET r == ioReadFull(file, AdapterRs(c), n)
    IN  SetAdapterReader(r.rs, Ret("Bread", BreadResult(Len(r.data), r.err), r.data, "nil"))

AdapterBgetc(c) ==
    LET r == bufioReadByte(file, AdapterRs(c))
    IN  SetAdapterReader(r.rs,
            IF r.err # "nil"
            THEN IF r.err # "EOF" THEN Ret("Bgetc", 0, <<>>, "fatal")
                 ELSE Ret("Bgetc", EOF, <<>>, "nil")
            ELSE Ret("Bgetc", ByteToInt(r.c), <<r.c>>, "nil"))

AdapterBrdline(delim, c) ==
    LET r == bufioReadBytes(file, AdapterRs(c), ByteOf(delim), <<>>)
    IN  SetAdapterReader(r.rs,
            IF r.err # "nil" THEN Ret("Brdline", 0, <<>>, "fatal")
            ELSE Ret("Brdline", Len(r.data), r.data, "nil"))

AdapterWrite(p) ==
    LET r == bufioWrite(AdapterWs, p)
    IN  SetAdapterWriter(r.ws, Ret("Write", r.nn, <<>>, r.err))

AdapterWriteString(p) ==
    LET r == bufioWriteString(AdapterWs, p)
    IN  SetAdapterWriter(r.ws, Ret("WriteString", r.nn, <<>>, r.err))

AdapterWriteByte(c) ==
    LET r == bufioWriteByte(AdapterWs, c)
    IN  SetAdapterWriter(r.ws, Ret("WriteByte", r.nn, <<>>, r.err))

AdapterFlush ==
    LET s == bufioFlush(AdapterWs)
    IN  SetAdapterWriter(s, Ret("Flush", 0, <<>>, s.err))

\* The sizes of the reads a plain stream gives: from one byte at a time to
\* all that is asked for.
Chunks == 1 .. MaxIO

\* A Reader on a file next to a BufReader on a stream of the same content,
\* or a Writer on a file next to a BufWriter on a stream: each sequential
\* operation is called on both.  No handle fails.
NextA ==
    \/ \E n \in 0 .. MaxIO, c \in Chunks : ReaderRead(n, 0) /\ AdapterRead(n, c)
    \/ \E n \in 0 .. MaxIO, c \in Chunks : ReaderPeek(n, 0) /\ AdapterPeek(n, c)
    \/ \E n \in 0 .. MaxIO, c \in Chunks : Bread(n, 0) /\ AdapterBread(n, c)
    \/ \E c \in Chunks : Bgetc(0) /\ AdapterBgetc(c)
    \/ \E d \in Delims, c \in Chunks : Brdline(d, 0) /\ AdapterBrdline(d, c)
    \/ \E n \in 0 .. MaxIO : WriterWrite(Fresh(n), 0, 0) /\ AdapterWrite(Fresh(n))
    \/ \E n \in 0 .. MaxIO : WriterWriteString(Fresh(n), 0, 0) /\ AdapterWriteString(Fresh(n))
    \/ WriterWriteByte(count + 1, 0, 0) /\ AdapterWriteByte(count + 1)
    \/ WriterFlush(0, 0) /\ AdapterFlush

SpecA == InitF /\ [][NextA]_vars

WriteOps == {"Write", "WriteString", "WriteByte", "Flush"}

\* The offset of the next byte the BufReader delivers, and whether that is
\* the Reader's Offset().
AdapterOffset == adp.pos - Len(adp.rbuf)

ReaderInSync == AdapterOffset = ReaderOffsetNow

\* C15 as stated: every sequential operation on the adapter stream returns
\* what the same operation returns on the stream of the named file, and
\* what the BufWriter's stream took is what the Writer's file holds.
C15_AdapterSameResults ==
    [][/\ ret'.op \in ReadOps \cup WriteOps => adp'.ret = ret'
       /\ ret'.op \in WriteOps => adp'.out = file']_vars

\* C15: on a BufReader over a plain stream that holds what the file holds,
\* starting at the same offset, Peek, Bread, Bgetc and Brdline return what
\* they return on the Reader of the file and leave both at the same offset,
\* however short the stream's reads are.  Read delivers the same bytes in
\* the same order, the stream's bytes from the common offset on, at least
\* one when the Reader gets one, and moves the offset by their number, but
\* it may return fewer or more bytes than on the file when the stream's
\* reads are short; it returns the same when both hold the same buffer and
\* the stream gives all that is asked for.  On a BufWriter, Write, WriteString,
\* WriteByte and Flush return what they return on the Writer of a file on
\* which no Seek was called, hold back the same bytes, and the stream has
\* taken what the file holds.
C15_AdapterSameBytes ==
    [][/\ ret.op = "Open" => ReaderInSync
       /\ (ReaderInSync /\ ret'.op \in {"Peek", "Bread", "Bgetc", "Brdline"}) =>
              /\ adp'.ret = ret'
              /\ ReaderInSync' \/ fatal'
       /\ (ReaderInSync /\ ret'.op = "Read") =>
              LET d == adp'.ret.data
              IN  /\ d = FileAt(file, ReaderOffsetNow, Len(d))
                  /\ ret'.val > 0 => Len(d) > 0
                  /\ ret'.val = 0 => adp'.ret = ret'
                  /\ adp'.ret.val = Len(d)
                  /\ AdapterOffset' = AdapterOffset + Len(d)
                  /\ \A n \in 0 .. MaxIO :
                         (adp.rbuf = rbuf /\ AdapterRead(n, MaxIO) /\ ret'.val <= n) =>
                             adp'.ret = ret'
       /\ ret'.op \in WriteOps =>
              /\ adp'.ret = ret'
              /\ adp'.wbuf = wbuf'
              /\ adp'.out = file']_vars

\* Bgetc returned the byte 0xFF on both streams and left both at the same
\* offset, while the stream's short reads have left the BufReader with
\* fewer bytes read ahead than the Reader.
C15_Witness ==
    /\ ret.op = "Bgetc" /\ adp.ret = ret /\ ret.val = 255
    /\ ReaderInSync /\ ReaderOffsetNow = 1 /\ Len(file) = MaxFile
    /\ Len(adp.rbuf) < Len(rbuf) /\ ~fatal

====
